---- MODULE Spec2Model ----
(***************************************************************************)
(* Hash tables of lab05: OpenAddressingHashTable (linear / double probing  *)
(* with a deleted-marker) and HashTableWithChaining, together with the     *)
(* hash functions they are constructed with.                               *)
(*                                                                         *)
(* A key is the sequence of the code points of its characters; the value   *)
(* 0 stands for Python's None, the other values are opaque payloads.       *)
(* max_load_factor is a fraction <<numerator, denominator>>.               *)
(***************************************************************************)
EXTENDS Integers, Sequences, FiniteSets, TLC

VARIABLES capacity, storage, element_count, max_load_factor,
          collision_resolution, hash_function, err, last, model

vars == <<capacity, storage, element_count, max_load_factor,
          collision_resolution, hash_function, err, last, model>>

----------------------------------------------------------------------------
(* Bounds of the model *)

\* largest initial_capacity a table is constructed with
MaxInitialCapacity == 4

\* an operation is explored only while the capacity it ends with is <= this
MaxCapacity == 8

\* "a", "e", "ba"
Keys == {<<97>>, <<101>>, <<98, 97>>}

NoneValue == 0

Values == {NoneValue, 1}

\* max_load_factor values of the open-addressing table: 0.5, 1.0
OpenLoadFactors == {<<1, 2>>, <<1, 1>>}

----------------------------------------------------------------------------
(* Hash functions *)

\* Python's a % b for a >= 0 and b # 0 (the result takes the sign of b)
PyMod(a, b) == IF b > 0 THEN a % b ELSE 0 - ((0 - a) % (0 - b))

RECURSIVE CodeSum(_)
CodeSum(s) == IF s = <<>> THEN 0 ELSE Head(s) + CodeSum(Tail(s))

calculate_character_sum_hash(identifier_string, hash_table_capacity) ==
    PyMod(CodeSum(identifier_string), hash_table_capacity)

RECURSIVE Horner(_, _, _)
Horner(s, acc, cap) ==
    IF s = <<>> THEN acc
    ELSE Horner(Tail(s), PyMod(acc * 31 + Head(s), cap), cap)

compute_polynomial_based_hash(identifier_string, hash_table_capacity) ==
    Horner(identifier_string, 0, hash_table_capacity)

INITIAL_HASH_CONSTANT == 5381

\* 2^16: a 32-bit hash_result is kept as <<high, low>> halves of 16 bits so
\* that hash_result * 33 stays inside the integers of the checker
Half == 65536

\* one pass of the loop of generate_djb2_hash_code:
\* hash_result = ((hash_result << 5) + hash_result) + ord(character),
\* then hash_result &= 0xFFFFFFFF
Djb2Step(hash_result, character) ==
    LET low  == hash_result[2] * 33 + character
        high == hash_result[1] * 33 + (low \div Half)
    IN  <<high % Half, low % Half>>

RECURSIVE Djb2Loop(_, _)
Djb2Loop(s, hash_result) ==
    IF s = <<>> THEN hash_result
    ELSE Djb2Loop(Tail(s), Djb2Step(hash_result, Head(s)))

\* the low half returned without the final % hash_table_capacity
generate_djb2_hash_code_unreduced(identifier_string, hash_table_capacity) ==
    Djb2Loop(identifier_string, <<0, INITIAL_HASH_CONSTANT>>)[2]

\* final_result = hash_result % hash_table_capacity, for
\* hash_result = high * 2^16 + low
generate_djb2_hash_code(identifier_string, hash_table_capacity) ==
    LET hash_result == Djb2Loop(identifier_string,
                                <<0, INITIAL_HASH_CONSTANT>>)
    IN  PyMod(PyMod(hash_result[1], hash_table_capacity)
                  * PyMod(Half, hash_table_capacity)
              + hash_result[2], hash_table_capacity)

secondary_hash_value(identifier_string, hash_table_capacity) ==
    1 + calculate_character_sum_hash(identifier_string,
                                     hash_table_capacity - 2)

calculate_double_hash_value(identifier_string, hash_table_capacity, iteration_number) ==
    PyMod(compute_polynomial_based_hash(identifier_string,
                                        hash_table_capacity)
          + iteration_number
            * secondary_hash_value(identifier_string, hash_table_capacity),
          hash_table_capacity)

\* the function a table calls for a key: "None" is the built-in polynomial
\* hash that the constructors define when no function is passed
ApplyHash(f, key_string, cap) ==
    IF f = "sum" THEN calculate_character_sum_hash(key_string, cap)
    ELSE compute_polynomial_based_hash(key_string, cap)

----------------------------------------------------------------------------
(* OpenAddressingHashTable *)

EmptySlot == [tag |-> "None", key |-> <<>>, value |-> NoneValue]

\* a deleted slot that looks like a slot never used
DELETED_MARKER_none == EmptySlot

DELETED_MARKER == [tag |-> "DELETED", key |-> <<>>, value |-> NoneValue]

Entry(k, v) == [tag |-> "entry", key |-> k, value |-> v]

IsEntry(slot) == slot.tag = "entry"

\* the table object as the methods see it; log collects, per call of
\* _execute_table_expansion, the table at entry and at return
Table == [capacity |-> capacity, storage |-> storage,
          element_count |-> element_count, err |-> err, log |-> <<>>]

Fields(t) == [capacity |-> t.capacity, storage |-> t.storage,
              element_count |-> t.element_count]

\* compute_double_hash: secondary hash of the closure
secondary_hash(key_string, table_capacity) ==
    1 + PyMod(CodeSum(key_string), table_capacity - 2)

\* the exception _compute_probe_index raises, "none" if it returns
ProbeError(t) ==
    IF collision_resolution = "linear" THEN "none"
    ELSE IF hash_function # "None" THEN "NameError"
    ELSE IF t.capacity = 2 THEN "ZeroDivisionError"
    ELSE "none"

_compute_probe_index(t, key_string, probe_attempt) ==
    IF collision_resolution = "linear"
    THEN (ApplyHash(hash_function, key_string, t.capacity) + probe_attempt)
             % t.capacity
    ELSE (compute_polynomial_based_hash(key_string, t.capacity)
             + probe_attempt * secondary_hash(key_string, t.capacity))
             % t.capacity

EmptyStorage(n) == [i \in 0 .. n - 1 |-> EmptySlot]

RECURSIVE _insert_entry(_, _, _)
RECURSIVE _execute_table_expansion(_, _)
RECURSIVE InsertProbe(_, _, _, _)
RECURSIVE Reinsert(_, _, _)

\* the probe loop of _insert_entry from attempt probe_attempt on
InsertProbe(t, key_string, value_data, probe_attempt) ==
    IF probe_attempt >= t.capacity
    THEN LET grown == _execute_table_expansion(t, t.capacity * 2)
         IN  IF grown.err # "none" THEN grown
             ELSE _insert_entry(grown, key_string, value_data)
    ELSE IF ProbeError(t) # "none" THEN [t EXCEPT !.err = ProbeError(t)]
    ELSE LET current_index == _compute_probe_index(t, key_string, probe_attempt)
             current_slot == t.storage[current_index]
             was_empty_or_deleted ==
                 current_slot = EmptySlot \/ current_slot = DELETED_MARKER
         IN  IF was_empty_or_deleted \/ current_slot.key = key_string
             THEN [t EXCEPT
                     !.storage[current_index] = Entry(key_string, value_data),
                     !.element_count =
                         IF was_empty_or_deleted THEN @ + 1 ELSE @]
             ELSE InsertProbe(t, key_string, value_data, probe_attempt + 1)

_insert_entry(t, key_string, value_data) ==
    InsertProbe(t, key_string, value_data, 0)

\* the loop of _execute_table_expansion over previous_storage[i ..]
Reinsert(t, previous_storage, i) ==
    IF i \notin DOMAIN previous_storage \/ t.err # "none" THEN t
    ELSE Reinsert(IF IsEntry(previous_storage[i])
                  THEN _insert_entry(t, previous_storage[i].key,
                                        previous_storage[i].value)
                  ELSE t,
                  previous_storage, i + 1)

_execute_table_expansion(t, new_capacity) ==
    LET cleared == [t EXCEPT !.capacity = new_capacity,
                             !.storage = EmptyStorage(new_capacity),
                             !.element_count = 0]
        done == Reinsert(cleared, t.storage, 0)
    IN  [done EXCEPT !.log = Append(@, [before |-> Fields(t),
                                        after |-> Fields(done),
                                        err |-> done.err])]

\* LoadExceeds with the count taken one too low: the resize fires one entry
\* late
LoadExceeds_late(t) ==
    (t.element_count - 1) * max_load_factor[2]
        > max_load_factor[1] * t.capacity

\* element_count / capacity > max_load_factor, for capacity > 0
LoadExceeds(t) ==
    t.element_count * max_load_factor[2] > max_load_factor[1] * t.capacity

\* add_element whose load-factor expansion triples the capacity
add_element_triples(t, key_string, value_data) ==
    IF t.capacity = 0 THEN [t EXCEPT !.err = "ZeroDivisionError"]
    ELSE LET grown == IF LoadExceeds(t)
                      THEN _execute_table_expansion(t, t.capacity * 3)
                      ELSE t
         IN  IF grown.err # "none" THEN grown
             ELSE _insert_entry(grown, key_string, value_data)

add_element(t, key_string, value_data) ==
    IF t.capacity = 0 THEN [t EXCEPT !.err = "ZeroDivisionError"]
    ELSE LET grown == IF LoadExceeds(t)
                      THEN _execute_table_expansion(t, t.capacity * 2)
                      ELSE t
         IN  IF grown.err # "none" THEN grown
             ELSE _insert_entry(grown, key_string, value_data)

\* the loop of find_element from attempt probe_attempt on:
\* [err, value] with value the returned value
RECURSIVE FindProbe(_, _, _)
FindProbe(t, key_string, probe_attempt) ==
    IF probe_attempt >= t.capacity THEN [err |-> "none", value |-> NoneValue]
    ELSE IF ProbeError(t) # "none"
    THEN [err |-> ProbeError(t), value |-> NoneValue]
    ELSE LET current_slot ==
                 t.storage[_compute_probe_index(t, key_string, probe_attempt)]
         IN  IF current_slot = EmptySlot
             THEN [err |-> "none", value |-> NoneValue]
             ELSE IF current_slot # DELETED_MARKER
                     /\ current_slot.key = key_string
             THEN [err |-> "none", value |-> current_slot.value]
             ELSE FindProbe(t, key_string, probe_attempt + 1)

find_element(t, key_string) == FindProbe(t, key_string, 0)

\* the loop of remove_element from attempt probe_attempt on:
\* [table, removed] with removed the returned boolean
RECURSIVE RemoveProbe(_, _, _)
RemoveProbe(t, key_string, probe_attempt) ==
    IF probe_attempt >= t.capacity THEN [table |-> t, removed |-> FALSE]
    ELSE IF ProbeError(t) # "none"
    THEN [table |-> [t EXCEPT !.err = ProbeError(t)], removed |-> FALSE]
    ELSE LET current_index == _compute_probe_index(t, key_string, probe_attempt)
             current_slot == t.storage[current_index]
         IN  IF current_slot = EmptySlot
             THEN [table |-> t, removed |-> FALSE]
             ELSE IF current_slot # DELETED_MARKER
                     /\ current_slot.key = key_string
             THEN [table |-> [t EXCEPT
                                !.storage[current_index] = DELETED_MARKER,
                                !.element_count = @ - 1],
                   removed |-> TRUE]
             ELSE RemoveProbe(t, key_string, probe_attempt + 1)

\* remove_element that marks the slot and leaves element_count as it was
remove_element_keeps_count(t, key_string) ==
    [RemoveProbe(t, key_string, 0) EXCEPT
         !.table.element_count = t.element_count]

remove_element(t, key_string) == RemoveProbe(t, key_string, 0)

\* the inner loop of analyze_probing_statistics for stored_key from attempt
\* probe_attempt on, probes_for_key probes made so far: the number of probes
\* and the slot at which the loop breaks (-1 if it runs out of attempts)
RECURSIVE ProbeWalk(_, _, _, _)
ProbeWalk(t, stored_key, probe_attempt, probes_for_key) ==
    IF probe_attempt >= t.capacity
    THEN [probes_for_key |-> probes_for_key, test_index |-> -1]
    ELSE LET test_index == _compute_probe_index(t, stored_key, probe_attempt)
             test_slot == t.storage[test_index]
         IN  IF IsEntry(test_slot) /\ test_slot.key = stored_key
             THEN [probes_for_key |-> probes_for_key + 1,
                   test_index |-> test_index]
             ELSE ProbeWalk(t, stored_key, probe_attempt + 1,
                            probes_for_key + 1)

\* total_probe_count over the slots i .. of the storage
RECURSIVE ProbesFrom(_, _)
ProbesFrom(t, i) ==
    IF i \notin DOMAIN t.storage THEN 0
    ELSE (IF IsEntry(t.storage[i])
          THEN ProbeWalk(t, t.storage[i].key, 0, 0).probes_for_key
          ELSE 0) + ProbesFrom(t, i + 1)

successful_operations(t) ==
    Cardinality({i \in DOMAIN t.storage : IsEntry(t.storage[i])})

\* average_probes is the fraction <<numerator, denominator>>
analyze_probing_statistics(t) ==
    LET total_probe_count == ProbesFrom(t, 0)
    IN  [total_probe_count |-> total_probe_count,
         average_probes |->
             IF successful_operations(t) > 0
             THEN <<total_probe_count, successful_operations(t)>>
             ELSE <<0, 1>>]

\* [err, value] with value the returned boolean
contains_key(t, key_string) ==
    [err |-> find_element(t, key_string).err,
     value |-> find_element(t, key_string).value # NoneValue]

\* __getitem__ : [err, value], err "KeyError" when find_element gives None
GetItem(t, key_string) ==
    LET found == find_element(t, key_string)
    IN  IF found.err = "none" /\ found.value = NoneValue
        THEN [err |-> "KeyError", value |-> NoneValue]
        ELSE found

----------------------------------------------------------------------------
(* The open-addressing table as a state machine.  last records the latest *)
(* call: its arguments, what it returned, the table before it and the      *)
(* expansions it made.  model is the mapping the calls made so far         *)
(* describe: model[k] is <<v>> after add(k, v), <<>> initially and after a *)
(* call of remove(k).                                                      *)

EmptyModel == [k \in Keys |-> <<>>]

NoCall == [op |-> "new", key |-> <<>>, value |-> NoneValue,
           returned |-> NoneValue, removed |-> FALSE,
           pre |-> <<>>, log |-> <<>>]

\* OpenAddressingHashTable.__init__ : no argument is checked
InitOpen ==
    /\ capacity \in 0 .. MaxInitialCapacity
    /\ max_load_factor \in OpenLoadFactors
    /\ collision_resolution \in {"linear", "double"}
    /\ hash_function \in {"None", "sum"}
    /\ storage = EmptyStorage(capacity)
    /\ element_count = 0
    /\ err = "none"
    /\ last = NoCall
    /\ model = EmptyModel

Install(t) ==
    /\ capacity' = t.capacity
    /\ storage' = t.storage
    /\ element_count' = t.element_count
    /\ err' = t.err
    /\ UNCHANGED <<max_load_factor, collision_resolution, hash_function>>

AddElement(k, v) ==
    /\ err = "none"
    /\ LET t == add_element(Table, k, v)
       IN  /\ t.capacity <= MaxCapacity
           /\ Install(t)
           /\ last' = [op |-> "add", key |-> k, value |-> v,
                       returned |-> NoneValue, removed |-> FALSE,
                       pre |-> Fields(Table), log |-> t.log]
    /\ model' = [model EXCEPT ![k] = <<v>>]

RemoveElement(k) ==
    /\ err = "none"
    /\ LET r == remove_element(Table, k)
       IN  /\ Install(r.table)
           /\ last' = [op |-> "remove", key |-> k, value |-> NoneValue,
                       returned |-> NoneValue, removed |-> r.removed,
                       pre |-> Fields(Table), log |-> <<>>]
    /\ model' = [model EXCEPT ![k] = <<>>]

FindElement(k) ==
    /\ err = "none"
    /\ LET r == find_element(Table, k)
       IN  /\ err' = r.err
           /\ last' = [op |-> "find", key |-> k, value |-> NoneValue,
                       returned |-> r.value, removed |-> FALSE,
                       pre |-> Fields(Table), log |-> <<>>]
           /\ UNCHANGED <<capacity, storage, element_count, max_load_factor,
                          collision_resolution, hash_function, model>>

NextOpen ==
    \/ \E k \in Keys, v \in Values : AddElement(k, v)
    \/ \E k \in Keys : RemoveElement(k)
    \/ \E k \in Keys : FindElement(k)

SpecOpen == InitOpen /\ [][NextOpen]_vars

\* the behaviours that only call add_element
NextOpenInserts == \E k \in Keys, v \in Values : AddElement(k, v)

SpecOpenInserts == InitOpen /\ [][NextOpenInserts]_vars

\* analyze_probing_statistics() : last.returned is the returned tuple
AnalyzeProbingStatistics ==
    /\ err = "none"
    /\ last' = [op |-> "analyze_probing_statistics", key |-> <<>>,
                value |-> NoneValue,
                returned |-> analyze_probing_statistics(Table),
                removed |-> FALSE, pre |-> Fields(Table), log |-> <<>>]
    /\ UNCHANGED <<capacity, storage, element_count, max_load_factor,
                   collision_resolution, hash_function, err, model>>

NextOpenStatistics ==
    \/ \E k \in Keys, v \in Values : AddElement(k, v)
    \/ \E k \in Keys : RemoveElement(k)
    \/ AnalyzeProbingStatistics

SpecOpenStatistics == InitOpen /\ [][NextOpenStatistics]_vars

\* "e", "aa", "b", "a": at capacity 6 the double-hash probe sequences of
\* "aa" and "b" visit the slots 2 and 5 only; four keys fill a table of
\* capacity 3
CycleKeys == {<<101>>, <<97, 97>>, <<98>>, <<97>>}

\* an add_element of the table of CycleKeys is explored only while the
\* capacity it ends with is <= this
MaxCycleCapacity == 12

\* OpenAddressingHashTable(3, max_load_factor, collision_strategy)
InitOpenCycle ==
    /\ capacity = 3
    /\ max_load_factor \in OpenLoadFactors
    /\ collision_resolution \in {"linear", "double"}
    /\ hash_function = "None"
    /\ storage = EmptyStorage(capacity)
    /\ element_count = 0
    /\ err = "none"
    /\ last = NoCall
    /\ model = [k \in CycleKeys |-> <<>>]

AddElementCycle(k, v) ==
    /\ err = "none"
    /\ LET t == add_element(Table, k, v)
       IN  /\ t.capacity <= MaxCycleCapacity
           /\ Install(t)
           /\ last' = [op |-> "add", key |-> k, value |-> v,
                       returned |-> NoneValue, removed |-> FALSE,
                       pre |-> Fields(Table), log |-> t.log]
    /\ model' = [model EXCEPT ![k] = <<v>>]

\* the behaviours that only call add_element, on CycleKeys
NextOpenCycle == \E k \in CycleKeys, v \in Values : AddElementCycle(k, v)

SpecOpenCycle == InitOpenCycle /\ [][NextOpenCycle]_vars

----------------------------------------------------------------------------
(* Properties of the open-addressing table *)

\* key_string is held by an occupied slot of t
Holds(t, key_string) ==
    \E i \in DOMAIN t.storage :
        IsEntry(t.storage[i]) /\ t.storage[i].key = key_string

\* C1 (delete-then-find): when remove_element(k) has returned True, a
\* find_element(k) that follows immediately returns None and a second
\* remove_element(k) returns False.
C1_DeleteThenFind ==
    (last.op = "remove" /\ last.removed) =>
        /\ find_element(Table, last.key).value = NoneValue
        /\ ~ remove_element(Table, last.key).removed

\* C2 (overwrite): add_element(k, v2) for a key k that is present leaves
\* len() unchanged and makes find_element(k) return v2.
C2_Overwrite ==
    (last.op = "add" /\ err = "none" /\ Holds(last.pre, last.key)) =>
        /\ element_count = last.pre.element_count
        /\ find_element(Table, last.key).value = last.value

\* C3 (resize preserves live entries): every call of
\* _execute_table_expansion returns with the len() it was entered with and
\* with find_element(k) returning, for every key k, what it returned before.
C3_ExpansionPreserves ==
    \A i \in 1 .. Len(last.log) :
        /\ last.log[i].after.element_count = last.log[i].before.element_count
        /\ \A k \in Keys : find_element(last.log[i].after, k)
                              = find_element(last.log[i].before, k)

\* C5 (insert never fails): on a table of capacity >= 1 every add_element
\* call returns without raising and find_element then returns the value.
C5_InsertNeverFails ==
    (last.op = "add" /\ last.pre.capacity >= 1) =>
        /\ err = "none"
        /\ find_element(Table, last.key)
              = [err |-> "none", value |-> last.value]

\* C8 (round-trip): after any sequence of add_element calls on a table with
\* linear probing and capacity >= 1, or double hashing and capacity >= 3,
\* find_element(k) returns the value of the last add_element for every
\* inserted key k and len() is the number of distinct keys inserted.
C8_OpenRoundTrip ==
    (capacity >= 1 /\ (collision_resolution = "double" => capacity >= 3)) =>
        /\ err = "none"
        /\ \A k \in Keys :
               model[k] # <<>> =>
                   find_element(Table, k)
                       = [err |-> "none", value |-> model[k][1]]
        /\ element_count = Cardinality({k \in Keys : model[k] # <<>>})

\* C6 (invalid capacity is rejected at construction): no insert, find or
\* delete is ever executed on a table of capacity < 1, nor on a table with
\* the 'double' strategy and capacity <= 2.
C6_InvalidCapacityRejected ==
    last.op # "new" =>
        /\ last.pre.capacity >= 1
        /\ collision_resolution = "double" => last.pre.capacity >= 3


\* C11 (KeyNotFound): find_element and remove_element of a key that no slot
\* holds return None and False, raise nothing and leave capacity, count and
\* storage as they were.
C11_KeyNotFound ==
    (/\ last.op \in {"find", "remove"}
     /\ ~ Holds(last.pre, last.key)) =>
        /\ err = "none"
        /\ last.returned = NoneValue
        /\ ~ last.removed
        /\ Fields(Table) = last.pre

\* every slot of t holds an entry whose key is not key_string: all capacity
\* probe attempts of a linear insert of key_string fail
AllOccupiedByOthers(t, key_string) ==
    \A i \in 0 .. t.capacity - 1 :
        IsEntry(t.storage[i]) /\ t.storage[i].key # key_string

\* C13 (forced resize-and-retry): a linear-probing add_element(k, v) whose
\* load-factor check does not fire and whose capacity probe attempts all hit
\* slots occupied by other keys doubles the capacity and inserts k; after
\* it k and every key that was live are found with their values and len()
\* has grown by 1.
C13_ForcedResize ==
    (/\ last.op = "add"
     /\ collision_resolution = "linear"
     /\ last.pre.capacity >= 1
     /\ ~ LoadExceeds(last.pre)
     /\ AllOccupiedByOthers(last.pre, last.key)) =>
        /\ err = "none"
        /\ capacity = 2 * last.pre.capacity
        /\ find_element(Table, last.key).value = last.value
        /\ \A k \in Keys \ {last.key} :
               Holds(last.pre, k) =>
                   find_element(Table, k) = find_element(last.pre, k)
        /\ element_count = last.pre.element_count + 1

\* the slots of storage that the last call changed
ChangedSlots ==
    {i \in 0 .. capacity - 1 : storage[i] # last.pre.storage[i]}

\* the probe sequence of key_string in t visits slot i
PassesThrough(t, key_string, i) ==
    \E probe_attempt \in 0 .. t.capacity - 1 :
        _compute_probe_index(t, key_string, probe_attempt) = i

\* C15 (tombstone reachability): when remove_element(A) has returned True
\* and add_element(B, v) follows for another key B whose probe sequence
\* passes through A's old slot, then find_element(A) returns None,
\* find_element(B) returns v, and every other key that was live and whose
\* probe sequence passes through that slot is still found with its value.
C15_TombstoneStep ==
    (/\ last.op = "remove"
     /\ last.removed
     /\ last'.op = "add"
     /\ last'.key # last.key
     /\ \E i \in ChangedSlots : PassesThrough(Table, last'.key, i)) =>
        /\ err' = "none"
        /\ find_element(Table', last.key).value = NoneValue
        /\ find_element(Table', last'.key).value = last'.value
        /\ \A k \in Keys \ {last.key, last'.key} :
               (/\ Holds(last.pre, k)
                /\ \E i \in ChangedSlots : PassesThrough(Table, k, i)) =>
                   find_element(Table', k) = find_element(last.pre, k)

C15_TombstoneReachability == [][C15_TombstoneStep]_vars

\* the slot that attempt probe_attempt of key_string's probe sequence reads
ProbedSlot(t, key_string, probe_attempt) ==
    t.storage[_compute_probe_index(t, key_string, probe_attempt)]

\* C16 (probe reachability): for every occupied slot holding key k, k's
\* probe sequence reaches, within capacity attempts and before any empty
\* (None) slot, an occupied slot that holds k.
C16_ProbeReachability ==
    \A i \in 0 .. capacity - 1 :
        IsEntry(storage[i]) =>
            \E probe_attempt \in 0 .. capacity - 1 :
                /\ IsEntry(ProbedSlot(Table, storage[i].key, probe_attempt))
                /\ ProbedSlot(Table, storage[i].key, probe_attempt).key
                       = storage[i].key
                /\ \A earlier \in 0 .. probe_attempt - 1 :
                       ProbedSlot(Table, storage[i].key, earlier) # EmptySlot

\* a remove_element has just marked a slot, and a key that is held is
\* reached only behind that deleted marker
C16_Witness ==
    /\ last.op = "remove"
    /\ last.removed
    /\ \E k \in Keys :
           /\ Holds(Table, k)
           /\ ProbedSlot(Table, k, 0) = DELETED_MARKER
           /\ ProbedSlot(Table, k, 0) # last.pre.storage[
                  _compute_probe_index(Table, k, 0)]

\* the indices of the occupied slots of t
OccupiedSlots(t) == {i \in DOMAIN t.storage : IsEntry(t.storage[i])}

\* C17 (count invariant): at the end of every public operation
\* element_count is the number of occupied slots (deleted markers and empty
\* slots are not counted) and len(storage) is capacity.
C17_CountInvariant ==
    /\ element_count = Cardinality(OccupiedSlots(Table))
    /\ DOMAIN storage = 0 .. capacity - 1

\* a remove_element has just returned True in a table that still holds
\* entries next to deleted markers
C17_Witness ==
    /\ last.op = "remove"
    /\ last.removed
    /\ element_count = 2
    /\ Cardinality({i \in DOMAIN storage : storage[i] = DELETED_MARKER}) = 2
    /\ capacity > last.pre.element_count

\* C20 (exhausted probe unreachable under the threshold): when
\* add_element is called on a table of capacity >= 3 whose load factor
\* element_count / capacity is at most max_load_factor and below 1, the
\* probe loop of _insert_entry finds a slot within capacity attempts: the
\* call makes no forced expansion.
C20_NoForcedExpansion ==
    (/\ last.op = "add"
     /\ last.pre.capacity >= 3
     /\ ~ LoadExceeds(last.pre)
     /\ last.pre.element_count < last.pre.capacity) =>
        /\ last.log = <<>>
        /\ capacity = last.pre.capacity

\* the first attempt of the probe sequence of slot i's key that reads slot
\* i (capacity if none does)
AttemptIndex(t, i) ==
    LET attempts == {probe_attempt \in 0 .. t.capacity - 1 :
                        _compute_probe_index(t, t.storage[i].key,
                                             probe_attempt) = i}
    IN  IF attempts = {} THEN t.capacity
        ELSE CHOOSE a \in attempts : \A b \in attempts : a <= b

\* the sum of AttemptIndex + 1 over the occupied slots i .. of t
RECURSIVE AttemptsFrom(_, _)
AttemptsFrom(t, i) ==
    IF i \notin DOMAIN t.storage THEN 0
    ELSE (IF IsEntry(t.storage[i]) THEN AttemptIndex(t, i) + 1 ELSE 0)
             + AttemptsFrom(t, i + 1)

\* C22 (probing statistics): for every occupied slot s the probe walk of
\* analyze_probing_statistics for s's key ends at slot s itself after
\* (attempt index of s) + 1 probes; the returned total is the sum of these
\* counts and the average is total / element_count, 0.0 for an empty table.
C22_ProbingStatistics ==
    last.op = "analyze_probing_statistics" =>
        /\ \A i \in OccupiedSlots(Table) :
               ProbeWalk(Table, storage[i].key, 0, 0)
                   = [probes_for_key |-> AttemptIndex(Table, i) + 1,
                      test_index |-> i]
        /\ last.returned.total_probe_count = AttemptsFrom(Table, 0)
        /\ last.returned.average_probes
               = IF element_count = 0 THEN <<0, 1>>
                 ELSE <<last.returned.total_probe_count, element_count>>

\* C26 (resize drops tombstones): right after every expansion the storage
\* holds no deleted marker, and an add_element whose load-factor check
\* fires ends with exactly twice the capacity it started with.
C26_ExpansionDropsTombstones ==
    /\ \A i \in 1 .. Len(last.log) :
           \A slot \in DOMAIN last.log[i].after.storage :
               last.log[i].after.storage[slot] # DELETED_MARKER
    /\ (/\ last.op = "add"
        /\ last.pre.capacity >= 1
        /\ LoadExceeds(last.pre)) =>
           capacity = 2 * last.pre.capacity

\* C27 (double hashing uses the table's hash function): on a 'double'
\* table of capacity >= 3 constructed with an explicit primary hash
\* function h, every add_element / find_element / remove_element returns
\* without raising, and attempt a of key k probes slot
\* (h(k, capacity) + a * secondary_hash(k, capacity)) mod capacity.
C27_DoubleUsesTableHash ==
    (/\ collision_resolution = "double"
     /\ hash_function # "None"
     /\ last.op \in {"add", "find", "remove"}
     /\ last.pre.capacity >= 3) =>
        /\ err = "none"
        /\ \A k \in Keys, probe_attempt \in 0 .. capacity - 1 :
               _compute_probe_index(Table, k, probe_attempt)
                   = PyMod(ApplyHash(hash_function, k, capacity)
                               + probe_attempt * secondary_hash(k, capacity),
                           capacity)

\* the occupied slots of t that hold key_string
SlotsHolding(t, key_string) ==
    {i \in OccupiedSlots(t) : t.storage[i].key = key_string}

\* C28 (key uniqueness): no key is held by more than one occupied slot,
\* and len() is the number of distinct keys held.
C28_OpenKeyUniqueness ==
    /\ \A k \in Keys : Cardinality(SlotsHolding(Table, k)) <= 1
    /\ element_count = Cardinality({k \in Keys : Holds(Table, k)})

RECURSIVE Pow2(_)
Pow2(n) == IF n = 0 THEN 1 ELSE 2 * Pow2(n - 1)

\* the expansions of the last add_element that the probe loop forced
ForcedExpansions ==
    Len(last.log) - (IF LoadExceeds(last.pre) THEN 1 ELSE 0)

\* C30 (insert terminates): an add_element on a table of capacity >= 3
\* ends after finitely many expansions, each of which doubles the capacity
\* (the capacity it ends with is 2^n times the one it started with, n the
\* number of expansions it made, nested ones included), and with linear
\* probing at most one of them is forced.
C30_InsertTerminates ==
    (last.op = "add" /\ last.pre.capacity >= 3) =>
        /\ capacity = last.pre.capacity * Pow2(Len(last.log))
        /\ ForcedExpansions >= 0
        /\ collision_resolution = "linear" => ForcedExpansions <= 1

\* a double-hashing add_element has just made two expansions, one of them
\* forced by a probe cycle
C30_Witness ==
    /\ last.op = "add"
    /\ collision_resolution = "double"
    /\ last.pre.capacity = 3
    /\ Len(last.log) = 2
    /\ capacity = 12
    /\ err = "none"
    /\ find_element(Table, last.key).value = last.value

----------------------------------------------------------------------------
(* HashTableWithChaining *)

\* max_load_factor values of the chained table: 0.125, 0.5, 1.0
ChainLoadFactors == {<<1, 8>>, <<1, 2>>, <<1, 1>>}

_create_empty_storage(storage_size) == [i \in 0 .. storage_size - 1 |-> <<>>]

_compute_hash_index(t, key_string) ==
    ApplyHash(hash_function, key_string, t.capacity)

\* Positions with the scan started at the second pair
Positions_skip(bucket_chain, key_string) ==
    {p \in 2 .. Len(bucket_chain) : bucket_chain[p][1] = key_string}

\* positions of bucket_chain whose pair holds key_string
Positions(bucket_chain, key_string) ==
    {p \in 1 .. Len(bucket_chain) : bucket_chain[p][1] = key_string}

First(positions) == CHOOSE p \in positions : \A q \in positions : p <= q

\* DeleteAt that drops the last pair whatever the position (a pop())
DeleteAt_pop(bucket_chain, p) ==
    [q \in 1 .. Len(bucket_chain) - 1 |-> bucket_chain[q]]

\* bucket_chain without its element at position p (del target_bucket[p])
\* DeleteAt that fills the gap with the last pair of the bucket
DeleteAt_swap(bucket_chain, p) ==
    IF p = Len(bucket_chain) THEN SubSeq(bucket_chain, 1, p - 1)
    ELSE SubSeq([bucket_chain EXCEPT ![p] = bucket_chain[Len(bucket_chain)]],
                1, Len(bucket_chain) - 1)

DeleteAt(bucket_chain, p) ==
    [q \in 1 .. Len(bucket_chain) - 1 |->
        IF q < p THEN bucket_chain[q] ELSE bucket_chain[q + 1]]

\* get_all_entries: the pairs of the buckets i .. in bucket order
RECURSIVE EntriesFrom(_, _)
EntriesFrom(store, i) ==
    IF i \notin DOMAIN store THEN <<>>
    ELSE store[i] \o EntriesFrom(store, i + 1)

\* get_all_entries that starts at the second bucket
get_all_entries_skip(t) == EntriesFrom(t.storage, 1)

get_all_entries(t) == EntriesFrom(t.storage, 0)

RECURSIVE add_entry(_, _, _)
RECURSIVE _perform_resize_operation(_, _)
RECURSIVE Readd(_, _, _)

\* the loops of _perform_resize_operation over the pairs i .. of the
\* previous storage
Readd(t, pairs, i) ==
    IF i > Len(pairs) \/ t.err # "none" THEN t
    ELSE Readd(add_entry(t, pairs[i][1], pairs[i][2]), pairs, i + 1)

_perform_resize_operation(t, new_capacity) ==
    LET cleared == [t EXCEPT !.capacity = new_capacity,
                             !.storage = _create_empty_storage(new_capacity),
                             !.element_count = 0]
        done == Readd(cleared, get_all_entries(t), 1)
    IN  [done EXCEPT !.log = Append(@, [before |-> Fields(t),
                                        after |-> Fields(done),
                                        err |-> done.err])]

\* add_entry that moves an overwritten pair to the end of its bucket
add_entry_move_to_end(t, key_string, value_data) ==
    IF t.capacity = 0 THEN [t EXCEPT !.err = "ZeroDivisionError"]
    ELSE LET grown == IF LoadExceeds(t)
                      THEN _perform_resize_operation(t, t.capacity * 2)
                      ELSE t
             bucket_index == _compute_hash_index(grown, key_string)
             target_bucket == grown.storage[bucket_index]
             found == Positions(target_bucket, key_string)
         IN  IF grown.err # "none" THEN grown
             ELSE IF found # {}
             THEN [grown EXCEPT !.storage[bucket_index] =
                                    Append(DeleteAt(@, First(found)),
                                           <<key_string, value_data>>)]
             ELSE [grown EXCEPT !.storage[bucket_index] =
                                    Append(@, <<key_string, value_data>>),
                                !.element_count = @ + 1]

add_entry(t, key_string, value_data) ==
    IF t.capacity = 0 THEN [t EXCEPT !.err = "ZeroDivisionError"]
    ELSE LET grown == IF LoadExceeds(t)
                      THEN _perform_resize_operation(t, t.capacity * 2)
                      ELSE t
             bucket_index == _compute_hash_index(grown, key_string)
             target_bucket == grown.storage[bucket_index]
             found == Positions(target_bucket, key_string)
         IN  IF grown.err # "none" THEN grown
             ELSE IF found # {}
             THEN [grown EXCEPT !.storage[bucket_index][First(found)] =
                                    <<key_string, value_data>>]
             ELSE [grown EXCEPT !.storage[bucket_index] =
                                    Append(@, <<key_string, value_data>>),
                                !.element_count = @ + 1]

\* [err, value] with value the returned value
retrieve_value(t, key_string) ==
    IF t.capacity = 0 THEN [err |-> "ZeroDivisionError", value |-> NoneValue]
    ELSE LET target_bucket == t.storage[_compute_hash_index(t, key_string)]
             found == Positions(target_bucket, key_string)
         IN  [err |-> "none",
              value |-> IF found = {} THEN NoneValue
                        ELSE target_bucket[First(found)][2]]

\* remove_entry that deletes the pair and leaves element_count as it was
remove_entry_keeps_count(t, key_string) ==
    IF t.capacity = 0
    THEN [table |-> [t EXCEPT !.err = "ZeroDivisionError"], removed |-> FALSE]
    ELSE LET bucket_index == _compute_hash_index(t, key_string)
             target_bucket == t.storage[bucket_index]
             found == Positions(target_bucket, key_string)
         IN  IF found = {} THEN [table |-> t, removed |-> FALSE]
             ELSE [table |-> [t EXCEPT
                                !.storage[bucket_index] =
                                    DeleteAt(target_bucket, First(found))],
                   removed |-> TRUE]

\* [table, removed] with removed the returned boolean
remove_entry(t, key_string) ==
    IF t.capacity = 0
    THEN [table |-> [t EXCEPT !.err = "ZeroDivisionError"], removed |-> FALSE]
    ELSE LET bucket_index == _compute_hash_index(t, key_string)
             target_bucket == t.storage[bucket_index]
             found == Positions(target_bucket, key_string)
         IN  IF found = {} THEN [table |-> t, removed |-> FALSE]
             ELSE [table |-> [t EXCEPT
                                !.storage[bucket_index] =
                                    DeleteAt(target_bucket, First(found)),
                                !.element_count = @ - 1],
                   removed |-> TRUE]

\* HashTableWithChaining.contains_key : [err, value]
chain_contains_key(t, key_string) ==
    [err |-> retrieve_value(t, key_string).err,
     value |-> retrieve_value(t, key_string).value # NoneValue]

\* HashTableWithChaining.__getitem__ : [err, value]
ChainGetItem(t, key_string) ==
    LET found == retrieve_value(t, key_string)
    IN  IF found.err = "none" /\ found.value = NoneValue
        THEN [err |-> "KeyError", value |-> NoneValue]
        ELSE found

current_load_factor(t) == <<t.element_count, t.capacity>>

\* collisions_in_bucket that counts every pair of the chain
collisions_in_bucket_all(chain_length) == chain_length

collisions_in_bucket(chain_length) == chain_length - 1

\* total_collision_count over the buckets i .. of store
RECURSIVE CollisionsFrom(_, _)
CollisionsFrom(store, i) ==
    IF i \notin DOMAIN store THEN 0
    ELSE (IF Len(store[i]) > 0 THEN collisions_in_bucket(Len(store[i]))
          ELSE 0) + CollisionsFrom(store, i + 1)

\* non_empty_bucket_count that counts every bucket
non_empty_bucket_count_all(t) == Cardinality(DOMAIN t.storage)

non_empty_bucket_count(t) ==
    Cardinality({i \in DOMAIN t.storage : Len(t.storage[i]) > 0})

\* average_collisions is the fraction <<numerator, denominator>>
analyze_collision_statistics(t) ==
    LET total_collision_count == CollisionsFrom(t.storage, 0)
    IN  [total_collision_count |-> total_collision_count,
         average_collisions |->
             IF non_empty_bucket_count(t) > 0
             THEN <<total_collision_count, non_empty_bucket_count(t)>>
             ELSE <<0, 1>>]

----------------------------------------------------------------------------
(* The chained table as a state machine *)

\* HashTableWithChaining.__init__ : no argument is checked
InitChain ==
    /\ capacity \in 0 .. MaxInitialCapacity
    /\ max_load_factor \in ChainLoadFactors
    /\ collision_resolution = "chaining"
    /\ hash_function \in {"None", "sum"}
    /\ storage = _create_empty_storage(capacity)
    /\ element_count = 0
    /\ err = "none"
    /\ last = NoCall
    /\ model = EmptyModel

AddEntry(k, v) ==
    /\ err = "none"
    /\ LET t == add_entry(Table, k, v)
       IN  /\ t.capacity <= MaxCapacity
           /\ Install(t)
           /\ last' = [op |-> "add", key |-> k, value |-> v,
                       returned |-> NoneValue, removed |-> FALSE,
                       pre |-> Fields(Table), log |-> t.log]
    /\ model' = [model EXCEPT ![k] = <<v>>]

RemoveEntry(k) ==
    /\ err = "none"
    /\ LET r == remove_entry(Table, k)
       IN  /\ Install(r.table)
           /\ last' = [op |-> "remove", key |-> k, value |-> NoneValue,
                       returned |-> NoneValue, removed |-> r.removed,
                       pre |-> Fields(Table), log |-> <<>>]
    /\ model' = [model EXCEPT ![k] = <<>>]

RetrieveValue(k) ==
    /\ err = "none"
    /\ LET r == retrieve_value(Table, k)
       IN  /\ err' = r.err
           /\ last' = [op |-> "find", key |-> k, value |-> NoneValue,
                       returned |-> r.value, removed |-> FALSE,
                       pre |-> Fields(Table), log |-> <<>>]
           /\ UNCHANGED <<capacity, storage, element_count, max_load_factor,
                          collision_resolution, hash_function, model>>

NextChain ==
    \/ \E k \in Keys, v \in Values : AddEntry(k, v)
    \/ \E k \in Keys : RemoveEntry(k)
    \/ \E k \in Keys : RetrieveValue(k)

SpecChain == InitChain /\ [][NextChain]_vars

\* the behaviours that only call add_entry
NextChainInserts == \E k \in Keys, v \in Values : AddEntry(k, v)

SpecChainInserts == InitChain /\ [][NextChainInserts]_vars

\* the table constructed with initial_capacity = 1, then inserts only
InitChainDegenerate == InitChain /\ capacity = 1

SpecChainDegenerate == InitChainDegenerate /\ [][NextChainInserts]_vars

\* either table: every behaviour of SpecOpen and every behaviour of SpecChain
InitTables == InitOpen \/ InitChain

NextTables ==
    \/ collision_resolution # "chaining" /\ NextOpen
    \/ collision_resolution = "chaining" /\ NextChain

SpecTables == InitTables /\ [][NextTables]_vars

\* a call that returns r.value or raises r.err and changes nothing else
Query(name, k, r) ==
    /\ err = "none"
    /\ err' = r.err
    /\ last' = [op |-> name, key |-> k, value |-> NoneValue,
                returned |-> r.value, removed |-> FALSE,
                pre |-> Fields(Table), log |-> <<>>]
    /\ UNCHANGED <<capacity, storage, element_count, max_load_factor,
                   collision_resolution, hash_function, model>>

\* OpenAddressingHashTable.contains_key(k), also `k in table`
ContainsKey(k) ==
    /\ collision_resolution # "chaining"
    /\ Query("contains_key", k, contains_key(Table, k))

\* OpenAddressingHashTable.__getitem__ : table[k]
GetItemOpen(k) ==
    /\ collision_resolution # "chaining"
    /\ Query("__getitem__", k, GetItem(Table, k))

\* HashTableWithChaining.contains_key(k), also `k in table`
ChainContainsKey(k) ==
    /\ collision_resolution = "chaining"
    /\ Query("contains_key", k, chain_contains_key(Table, k))

\* HashTableWithChaining.__getitem__ : table[k]
ChainGetItemCall(k) ==
    /\ collision_resolution = "chaining"
    /\ Query("__getitem__", k, ChainGetItem(Table, k))

\* either table, with inserts and the membership calls
NextMembership ==
    \/ collision_resolution # "chaining"
           /\ \E k \in Keys, v \in Values : AddElement(k, v)
    \/ collision_resolution = "chaining"
           /\ \E k \in Keys, v \in Values : AddEntry(k, v)
    \/ \E k \in Keys : ContainsKey(k)
    \/ \E k \in Keys : GetItemOpen(k)
    \/ \E k \in Keys : ChainContainsKey(k)
    \/ \E k \in Keys : ChainGetItemCall(k)

SpecMembership == InitTables /\ [][NextMembership]_vars

\* analyze_collision_statistics() : last.returned is the returned tuple
AnalyzeCollisionStatistics ==
    /\ err = "none"
    /\ last' = [op |-> "analyze_collision_statistics", key |-> <<>>,
                value |-> NoneValue,
                returned |-> analyze_collision_statistics(Table),
                removed |-> FALSE, pre |-> Fields(Table), log |-> <<>>]
    /\ UNCHANGED <<capacity, storage, element_count, max_load_factor,
                   collision_resolution, hash_function, err, model>>

NextChainStatistics ==
    \/ \E k \in Keys, v \in Values : AddEntry(k, v)
    \/ \E k \in Keys : RemoveEntry(k)
    \/ AnalyzeCollisionStatistics

SpecChainStatistics == InitChain /\ [][NextChainStatistics]_vars

----------------------------------------------------------------------------
(* Properties of the chained table *)

\* key_string is held by a pair of some bucket of t
ChainHolds(t, key_string) ==
    \E i \in DOMAIN t.storage : Positions(t.storage[i], key_string) # {}

\* the number of positions of the sequence pairs that hold x
Occurrences(pairs, x) == Cardinality({p \in 1 .. Len(pairs) : pairs[p] = x})

\* the keys the calls so far have inserted and not removed
ModelKeys == {k \in Keys : model[k] # <<>>}

\* C4 as claimed (load factor bound): after any add_entry call completes,
\* element_count / capacity <= max_load_factor.
C4_LoadFactorBound ==
    (last.op = "add" /\ err = "none") =>
        element_count * max_load_factor[2] <= max_load_factor[1] * capacity

\* C4 as amended: after an add_entry call that completes without resizing,
\* and after every add_entry call when max_load_factor >= 0.5,
\* (element_count - 1) / capacity <= max_load_factor: the load factor is
\* checked before the entry is added, so it exceeds the threshold by at most
\* one entry.
C4_LoadFactorBoundBeforeInsert ==
    (/\ last.op = "add"
     /\ err = "none"
     /\ last.log = <<>> \/ 2 * max_load_factor[1] >= max_load_factor[2]) =>
        (element_count - 1) * max_load_factor[2]
            <= max_load_factor[1] * capacity

\* an add_entry call without resize has ended above the threshold
C4_Witness ==
    /\ last.op = "add"
    /\ err = "none"
    /\ last.log = <<>>
    /\ element_count = last.pre.element_count + 1
    /\ element_count * max_load_factor[2] > max_load_factor[1] * capacity

\* C7 (round-trip): after any sequence of add_entry calls on a table of
\* capacity >= 1, retrieve_value(k) returns the value of the last add_entry
\* for k, None for a key never inserted, and len() is the number of
\* distinct keys inserted.
C7_ChainRoundTrip ==
    capacity >= 1 =>
        /\ err = "none"
        /\ \A k \in Keys :
               retrieve_value(Table, k) =
                   [err |-> "none",
                    value |-> IF model[k] = <<>> THEN NoneValue
                              ELSE model[k][1]]
        /\ element_count = Cardinality(ModelKeys)

\* a repeated key has got a new value in a call that resized a table of
\* two keys, the third key never inserted
C7_Witness ==
    /\ last.op = "add"
    /\ ChainHolds(last.pre, last.key)
    /\ retrieve_value(last.pre, last.key).value # last.value
    /\ last.log # <<>>
    /\ element_count = 2
    /\ \E k \in Keys : model[k] = <<>>

\* C9 (delete-then-find): when remove_entry(k) has returned True, len() is
\* one less than before, a retrieve_value(k) that follows immediately
\* returns None and a second remove_entry(k) returns False.
C9_ChainDeleteThenFind ==
    (last.op = "remove" /\ last.removed) =>
        /\ element_count = last.pre.element_count - 1
        /\ retrieve_value(Table, last.key)
              = [err |-> "none", value |-> NoneValue]
        /\ ~ remove_entry(Table, last.key).removed

\* a key has been removed from the front of a bucket that held two pairs
C9_Witness ==
    /\ last.op = "remove"
    /\ last.removed
    /\ \E i \in DOMAIN last.pre.storage :
           /\ Len(last.pre.storage[i]) >= 2
           /\ last.pre.storage[i][1][1] = last.key

\* C10 (resize preserves live entries): every call of
\* _perform_resize_operation returns with the element_count and the
\* multiset of (key, value) pairs it was entered with, and with
\* retrieve_value(k) unchanged for every key k.
C10_ChainResizePreserves ==
    \A i \in 1 .. Len(last.log) :
        LET before == last.log[i].before
            after == last.log[i].after
        IN  /\ after.element_count = before.element_count
            /\ \A k \in Keys, v \in Values :
                   Occurrences(get_all_entries(after), <<k, v>>)
                       = Occurrences(get_all_entries(before), <<k, v>>)
            /\ \A k \in Keys :
                   retrieve_value(after, k) = retrieve_value(before, k)

\* a resize has moved a key of a table of two or more keys to a bucket
\* with another index
C10_Witness ==
    \E i \in 1 .. Len(last.log) :
        /\ last.log[i].before.element_count >= 2
        /\ \E k \in Keys :
               /\ ChainHolds(last.log[i].before, k)
               /\ _compute_hash_index(last.log[i].before, k)
                      # _compute_hash_index(last.log[i].after, k)

\* j and k are held by the same bucket of t
SameBucket(t, j, k) ==
    \E i \in DOMAIN t.storage :
        Positions(t.storage[i], j) # {} /\ Positions(t.storage[i], k) # {}

\* j stands before k in a bucket of t
StandsBefore(t, j, k) ==
    \E i \in DOMAIN t.storage :
        \E p \in Positions(t.storage[i], j), q \in Positions(t.storage[i], k) :
            p < q

\* C14 as claimed (degenerate capacity): a table constructed with capacity 1
\* into which 3 distinct keys were inserted keeps the 3 entries in bucket
\* 0, each new key appended behind the earlier ones, and
\* analyze_collision_statistics() returns (2, 2.0).
C14_DegenerateCapacity ==
    Cardinality(ModelKeys) = 3 =>
        /\ capacity = 1
        /\ Len(storage[0]) = 3
        /\ ~ ChainHolds(last.pre, last.key) =>
               storage[0] = Append(last.pre.storage[0],
                                   <<last.key, last.value>>)
        /\ analyze_collision_statistics(Table).total_collision_count = 2
        /\ analyze_collision_statistics(Table).average_collisions[1]
               = 2 * analyze_collision_statistics(Table).average_collisions[2]

\* C14 amended: the table does not stay at capacity 1. Once 3 distinct
\* keys are inserted the capacity is at least 2, the 3 entries are all
\* kept, and the statistics are (3 - n, (3 - n) / n) for n non-empty
\* buckets; every add_entry keeps the order of the keys that share a bucket
\* and puts a new key last in its bucket.
C14_DegenerateResizes ==
    /\ Cardinality(ModelKeys) = 3 =>
           /\ capacity >= 2
           /\ element_count = 3
           /\ \A k \in Keys : retrieve_value(Table, k).value = model[k][1]
           /\ analyze_collision_statistics(Table).total_collision_count
                  = 3 - non_empty_bucket_count(Table)
           /\ analyze_collision_statistics(Table).average_collisions
                  = <<3 - non_empty_bucket_count(Table),
                      non_empty_bucket_count(Table)>>
    /\ last.op = "add" =>
           /\ \A j, k \in Keys :
                  (/\ j # k
                   /\ ChainHolds(last.pre, j)
                   /\ ChainHolds(last.pre, k)
                   /\ SameBucket(Table, j, k)) =>
                      /\ SameBucket(last.pre, j, k)
                      /\ StandsBefore(Table, j, k)
                             <=> StandsBefore(last.pre, j, k)
           /\ ~ ChainHolds(last.pre, last.key) =>
                  LET target_bucket ==
                          storage[_compute_hash_index(Table, last.key)]
                  IN  target_bucket[Len(target_bucket)]
                          = <<last.key, last.value>>

\* the third distinct key has just been inserted, the three keys share one
\* bucket of the resized table and the statistics are (2, 2.0)
C14_Witness ==
    /\ last.op = "add"
    /\ ~ ChainHolds(last.pre, last.key)
    /\ Cardinality(ModelKeys) = 3
    /\ last.log # <<>>
    /\ non_empty_bucket_count(Table) = 1
    /\ analyze_collision_statistics(Table)
           = [total_collision_count |-> 2, average_collisions |-> <<2, 1>>]

\* the places <<bucket, position>> of t that hold key_string
Places(t, key_string) ==
    UNION {{<<i, p>> : p \in Positions(t.storage[i], key_string)} :
               i \in DOMAIN t.storage}

\* C18 (chaining key uniqueness): every key appears in at most one bucket
\* and at most once in that bucket's list, and element_count is the total
\* number of entries over all buckets.
C18_ChainKeyUniqueness ==
    /\ \A k \in Keys : Cardinality(Places(Table, k)) <= 1
    /\ element_count = Len(get_all_entries(Table))

\* a key has just been overwritten with a new value in a bucket that holds
\* another key too, in a table from which the third key has been removed
C18_Witness ==
    /\ last.op = "add"
    /\ ChainHolds(last.pre, last.key)
    /\ last.value # retrieve_value(last.pre, last.key).value
    /\ \E k \in Keys \ {last.key} : SameBucket(Table, last.key, k)
    /\ \E k \in Keys : model[k] = <<>> /\ ~ ChainHolds(Table, k)
    /\ element_count = 2

\* the buckets of the table that hold at least one pair
OccupiedBuckets == {i \in DOMAIN storage : storage[i] # <<>>}

\* C21 (collision statistics): analyze_collision_statistics() returns
\* (T, A) with T = element_count minus the number of non-empty buckets
\* (the sum over the buckets of max(0, length - 1)) and A = T / (number of
\* non-empty buckets), 0.0 when every bucket is empty; the call raises
\* nothing and changes no state.
C21_CollisionStatistics ==
    last.op = "analyze_collision_statistics" =>
        /\ err = "none"
        /\ Fields(Table) = last.pre
        /\ last.returned.total_collision_count
               = Len(get_all_entries(Table)) - Cardinality(OccupiedBuckets)
        /\ last.returned.total_collision_count
               = element_count - Cardinality(OccupiedBuckets)
        /\ last.returned.average_collisions
               = IF OccupiedBuckets = {} THEN <<0, 1>>
                 ELSE <<last.returned.total_collision_count,
                        Cardinality(OccupiedBuckets)>>

\* the statistics were taken of a table with a collision, an empty bucket
\* and two non-empty buckets
C21_Witness ==
    /\ last.op = "analyze_collision_statistics"
    /\ last.returned.total_collision_count = 1
    /\ Cardinality(OccupiedBuckets) = 2
    /\ \E i \in DOMAIN storage : storage[i] = <<>>

\* C23 (one doubling per insert): an add_entry call that finds
\* element_count / capacity > max_load_factor ends with exactly twice the
\* capacity it started with, and any other add_entry call leaves the
\* capacity unchanged.
C23_OneDoubling ==
    (last.op = "add" /\ last.pre.capacity >= 1) =>
        capacity = IF LoadExceeds(last.pre) THEN 2 * last.pre.capacity
                   ELSE last.pre.capacity

\* C24 (overwrite in place): on a table of capacity >= 1, an add_entry(k, v)
\* for a key already held that makes no resize changes only the value of
\* k's pair - the pair keeps
\* its position, every bucket keeps its length and its other pairs,
\* element_count is unchanged; an add_entry for a key not yet held puts
\* <<k, v>> at the end of the bucket of k.
C24_OverwriteInPlace ==
    (last.op = "add" /\ last.pre.capacity >= 1) =>
        LET bucket_index == _compute_hash_index(Table, last.key)
            target_bucket == storage[bucket_index]
        IN  /\ (ChainHolds(last.pre, last.key) /\ last.log = <<>>) =>
                   /\ capacity = last.pre.capacity
                   /\ element_count = last.pre.element_count
                   /\ \A i \in DOMAIN storage \ {bucket_index} :
                          storage[i] = last.pre.storage[i]
                   /\ \E p \in DOMAIN target_bucket :
                          /\ last.pre.storage[bucket_index][p][1] = last.key
                          /\ target_bucket =
                                 [last.pre.storage[bucket_index]
                                      EXCEPT ![p] = <<last.key, last.value>>]
            /\ ~ ChainHolds(last.pre, last.key) =>
                   /\ target_bucket[Len(target_bucket)]
                          = <<last.key, last.value>>
                   /\ element_count = last.pre.element_count + 1
                   /\ last.log = <<>> =>
                          storage = [last.pre.storage EXCEPT
                                        ![bucket_index] = Append(@,
                                            <<last.key, last.value>>)]

\* the value of the first of two keys of one bucket has just been
\* overwritten with another value, without a resize
C24_Witness ==
    /\ last.op = "add"
    /\ last.log = <<>>
    /\ ChainHolds(last.pre, last.key)
    /\ retrieve_value(last.pre, last.key).value # last.value
    /\ LET target_bucket == storage[_compute_hash_index(Table, last.key)]
       IN  /\ Len(target_bucket) = 2
           /\ target_bucket[1] = <<last.key, last.value>>

\* C25 (delete never shrinks and preserves order): for both tables a
\* remove leaves the capacity as it was and no call ends with a smaller
\* capacity than it started with; a remove_entry(k) of the chained table
\* that returns True removes exactly k's pair from its bucket, keeps the
\* order of the remaining pairs of that bucket and leaves every other
\* bucket unchanged.
C25_DeleteNeverShrinks ==
    /\ last.op # "new" => capacity >= last.pre.capacity
    /\ last.op = "remove" => capacity = last.pre.capacity
    /\ (/\ last.op = "remove"
        /\ last.removed
        /\ collision_resolution = "chaining") =>
           LET bucket_index == _compute_hash_index(Table, last.key)
               previous_bucket == last.pre.storage[bucket_index]
           IN  /\ \A i \in DOMAIN storage \ {bucket_index} :
                      storage[i] = last.pre.storage[i]
               /\ \E p \in DOMAIN previous_bucket :
                      /\ previous_bucket[p][1] = last.key
                      /\ storage[bucket_index]
                             = SubSeq(previous_bucket, 1, p - 1)
                                   \o SubSeq(previous_bucket, p + 1,
                                             Len(previous_bucket))
               /\ ~ ChainHolds(Table, last.key)

\* remove_entry has just removed the first of the three pairs of a bucket
\* of a table of capacity 2
C25_Witness ==
    /\ last.op = "remove"
    /\ last.removed
    /\ collision_resolution = "chaining"
    /\ LET previous_bucket ==
               last.pre.storage[_compute_hash_index(Table, last.key)]
       IN  /\ Len(previous_bucket) = 3
           /\ previous_bucket[1][1] = last.key
    /\ capacity = 2

\* key_string is a live key of the table, whichever class it is
Live(key_string) ==
    IF collision_resolution = "chaining" THEN ChainHolds(Table, key_string)
    ELSE Holds(Table, key_string)

\* C29 (membership agrees with storage): for both tables a contains_key(k)
\* that returns gives True exactly when k is a live key, whatever value is
\* stored for k, and table[k] raises KeyError exactly when k is not live.
C29_Membership ==
    /\ (last.op = "contains_key" /\ err = "none") =>
           (last.returned <=> Live(last.key))
    /\ (last.op = "__getitem__" /\ err \in {"none", "KeyError"}) =>
           (err = "KeyError" <=> ~ Live(last.key))

----------------------------------------------------------------------------
(* The hash functions on their own: a capacity is fixed, then the functions *)
(* are called on strings; last holds the call and what it returned.        *)

\* largest hash_table_capacity the functions are called with
MaxHashCapacity == 8

\* longest identifier_string the functions are called with
MaxStringLength == 4

\* code points of "a" and Cyrillic "ya"
Alphabet == {97, 1103}

RECURSIVE StringsOfLength(_)
StringsOfLength(n) ==
    IF n = 0 THEN {<<>>}
    ELSE {Append(s, c) : s \in StringsOfLength(n - 1), c \in Alphabet}

Strings == UNION {StringsOfLength(n) : n \in 0 .. MaxStringLength}

InitHash ==
    /\ capacity \in 1 .. MaxHashCapacity
    /\ storage = <<>>
    /\ element_count = 0
    /\ max_load_factor = <<1, 1>>
    /\ collision_resolution = "none"
    /\ hash_function = "None"
    /\ err = "none"
    /\ last = NoCall
    /\ model = EmptyModel

Returned(name, identifier_string, result) ==
    /\ err = "none"
    /\ last' = [NoCall EXCEPT !.op = name, !.key = identifier_string,
                              !.returned = result]
    /\ UNCHANGED <<capacity, storage, element_count, max_load_factor,
                   collision_resolution, hash_function, err, model>>

CalculateCharacterSumHash(identifier_string) ==
    Returned("calculate_character_sum_hash", identifier_string,
             calculate_character_sum_hash(identifier_string, capacity))

ComputePolynomialBasedHash(identifier_string) ==
    Returned("compute_polynomial_based_hash", identifier_string,
             compute_polynomial_based_hash(identifier_string, capacity))

GenerateDjb2HashCode(identifier_string) ==
    Returned("generate_djb2_hash_code", identifier_string,
             generate_djb2_hash_code(identifier_string, capacity))

\* hash_table_capacity = 2 divides by zero in the secondary hash
CalculateDoubleHashValue(identifier_string, iteration_number) ==
    /\ err = "none"
    /\ IF capacity = 2
       THEN /\ err' = "ZeroDivisionError"
            /\ last' = [NoCall EXCEPT !.op = "calculate_double_hash_value",
                                      !.key = identifier_string,
                                      !.value = iteration_number]
       ELSE /\ err' = err
            /\ last' = [NoCall EXCEPT
                          !.op = "calculate_double_hash_value",
                          !.key = identifier_string,
                          !.value = iteration_number,
                          !.returned = calculate_double_hash_value(
                              identifier_string, capacity, iteration_number)]
    /\ UNCHANGED <<capacity, storage, element_count, max_load_factor,
                   collision_resolution, hash_function, model>>

NextHash ==
    \E identifier_string \in Strings :
        \/ CalculateCharacterSumHash(identifier_string)
        \/ ComputePolynomialBasedHash(identifier_string)
        \/ GenerateDjb2HashCode(identifier_string)
        \/ \E iteration_number \in 0 .. capacity - 1 :
               CalculateDoubleHashValue(identifier_string, iteration_number)

SpecHash == InitHash /\ [][NextHash]_vars

SingleHashCalls == {"calculate_character_sum_hash",
                    "compute_polynomial_based_hash",
                    "generate_djb2_hash_code"}

\* C12 (hash functions total and in range): each of the three hash
\* functions returns, for every string and every capacity >= 1, an integer
\* i with 0 <= i < capacity; for the empty string it is 0 for the sum and
\* the polynomial hash and 5381 mod capacity for DJB2.
C12_HashInRange ==
    last.op \in SingleHashCalls =>
        /\ err = "none"
        /\ last.returned \in 0 .. capacity - 1
        /\ last.key = <<>> =>
               last.returned = IF last.op = "generate_djb2_hash_code"
                               THEN 5381 % capacity
                               ELSE 0

\* DJB2 was called on "aaaa" with capacity 7: 5381 * 33^4 + ... exceeds
\* 2^32, the masked hash_result gives 4 (the unmasked one would give 1)
C12_Witness ==
    /\ last.op = "generate_djb2_hash_code"
    /\ last.key = <<97, 97, 97, 97>>
    /\ Djb2Loop(<<97, 97, 97>>, <<0, INITIAL_HASH_CONSTANT>>)[1] * 33 >= Half
    /\ capacity = 7
    /\ last.returned = 4

\* C19 (double hashing secondary hash): for every key and every capacity
\* >= 3 the secondary hash 1 + (sum of character codes mod (capacity - 2))
\* is odd and nonzero, and the double-hash probe sequence of attempts
\* 0 .. capacity - 1 visits no slot twice.
C19_SecondaryHashOdd ==
    (last.op = "calculate_double_hash_value" /\ capacity >= 3) =>
        /\ secondary_hash_value(last.key, capacity) % 2 = 1
        /\ secondary_hash_value(last.key, capacity) # 0
        /\ \A i, j \in 0 .. capacity - 1 :
               i # j =>
                   calculate_double_hash_value(last.key, capacity, i)
                       # calculate_double_hash_value(last.key, capacity, j)

====
